---- MODULE Spec2Model ----
(***************************************************************************)
(* Model of demo() in no-modal-demo.py: the guess / embed / score / ask    *)
(* loop that searches for a text whose embedding is close to a target.     *)
(*                                                                         *)
(* Distances are integers counting 1e-5 (so 0.6 is 60000); texts are       *)
(* numbered, the number order standing for the order of the text strings.  *)
(* A guess record, the string  ERROR d.dddd, "text"  of line 105, is the   *)
(* pair <<characters of d.dddd, text>>: the fixed parts of the string do   *)
(* not take part in any comparison.                                        *)
(***************************************************************************)
EXTENDS Integers, Sequences, FiniteSets, TLC

\* ------------------------------------------------------------- bounds
MaxText == 9
MaxGuesses == 9
MaxSeed == 1
MaxJitter == 1

\* ------------------------------------------------- program constants
MATCH_ERROR == 60000
Infinity == 1000000000
BestCap == 3
WindowCap == 8
InitialText == 1
TargetGuess == 0

\* The cost limits a run is started with: line 55 sets 60.0; 0 is the
\* limit under which the loop body never runs.
CostLimits == {0, 60}

\* ------------------------------------------------ the two services
\* The embedding service, seen through lines 94-96: the distance of a
\* text to the target.  The same text embeds to the same vector up to
\* numerical noise of at most MaxJitter units.  Text 0 is the text that
\* matches ("Be mindful", 0.375072 in the recorded run, line 178); the
\* first values are distances of the recorded run (lines 167-172).  Texts
\* 6 to 9 lie within 3e-5 above the threshold: their distances differ but
\* agree once rounded to four decimals, and one unit of noise takes the
\* last two onto the threshold.
BaseErrors ==
    << 99100, 98500, 98090, 99040, 94800, 60003, 60002, 60001, 60001,
       87940, 95000, 98091 >>

Texts == 0..MaxText

ErrorOf(t) == IF t = TargetGuess THEN 37507 ELSE BaseErrors[t]

Jitters == 0..MaxJitter

\* The guidance model's reply (line 134): any text numbered at most one
\* above the guess it was asked about, so a reply may repeat an earlier
\* guess, repeat the guess itself, name the next new text or name the
\* matching text.
Replies(t) == {x \in Texts : x <= t + 1}

NoReply == [message |-> FALSE, content |-> 0]

\* ------------------------------------------------------ guess records
RECURSIVE DecDigits(_)
DecDigits(n) ==
    IF n < 10 THEN <<48 + n>>
    ELSE Append(DecDigits(n \div 10), 48 + (n % 10))

\* Round a distance to 4 decimals (units of 1e-4), ties to even.
Round4(d) ==
    LET q == d \div 10
        r == d % 10
    IN  IF r > 5 \/ (r = 5 /\ q % 2 = 1) THEN q + 1 ELSE q

\* f"{VECTOR_ERROR:.4f}": integer digits, '.', exactly four decimals.
FormatError(d) ==
    LET q == Round4(d)
        f == q % 10000
    IN  DecDigits(q \div 10000) \o <<46>> \o
        << 48 + (f \div 1000), 48 + ((f \div 100) % 10),
           48 + ((f \div 10) % 10), 48 + (f % 10) >>

\* m = f"ERROR {VECTOR_ERROR:.4f}, \"{TEXT}\""
GuessRecord(d, t) == <<FormatError(d), t>>

\* The number a record's distance field reads as, in units of 1e-4.
RECURSIVE ParseDigits(_)
ParseDigits(s) ==
    IF s = <<>> THEN 0
    ELSE LET c == s[Len(s)]
             rest == ParseDigits(SubSeq(s, 1, Len(s) - 1))
         IN  IF c = 46 THEN rest ELSE 10 * rest + (c - 48)

RecordError(r) == ParseDigits(r[1])

\* str < str: character by character, a proper prefix first.
RECURSIVE StrLess(_, _)
StrLess(a, b) ==
    IF b = <<>> THEN FALSE
    ELSE IF a = <<>> THEN TRUE
    ELSE IF a[1] # b[1] THEN a[1] < b[1]
    ELSE StrLess(Tail(a), Tail(b))

RecordLess(r1, r2) ==
    StrLess(r1[1], r2[1]) \/ (r1[1] = r2[1] /\ r1[2] < r2[2])

\* list.sort() on a list of records: ascending string order, equal
\* records kept.
RECURSIVE InsertSorted(_, _)
InsertSorted(s, r) ==
    IF s = <<>> THEN <<r>>
    ELSE IF RecordLess(r, s[1]) THEN <<r>> \o s
    ELSE <<s[1]>> \o InsertSorted(Tail(s), r)

RECURSIVE SortList(_)
SortList(s) ==
    IF s = <<>> THEN <<>>
    ELSE InsertSorted(SortList(SubSeq(s, 1, Len(s) - 1)), s[Len(s)])

Range(s) == {s[i] : i \in 1..Len(s)}

\* A set of str is enumerated in hash-slot order, and the hash of a str
\* is keyed by a seed drawn when the process starts: the order is fixed
\* within a run, differs between runs and is unrelated to the order of
\* insertion or to the string order.
HashOf(r, seed) ==
    LET code == 7 * r[2] + 3 * RecordError(r) + Len(r[1])
    IN  ((code + seed) * (2 * seed + 5)) % 32

HashLess(a, b, seed) ==
    \/ HashOf(a, seed) < HashOf(b, seed)
    \/ HashOf(a, seed) = HashOf(b, seed) /\ RecordLess(b, a)

RECURSIVE SetToList(_, _)
SetToList(S, seed) ==
    IF S = {} THEN <<>>
    ELSE LET first == CHOOSE x \in S : \A y \in S \ {x} : HashLess(x, y, seed)
         IN  <<first>> \o SetToList(S \ {first}, seed)

\* list(set(xs))
ListOfSet(xs, seed) == SetToList(Range(xs), seed)

\* ------------------------------------------------------------- state
VARIABLES
    pc,                 \* position in demo()
    hashSeed,           \* the process's string-hash seed
    COST_LIMIT,
    TOTAL_COST,
    TEXT,
    VECTOR_ERROR,
    CURRENT_BEST_TEXT,
    CURRENT_BEST_ERROR,
    GUESSES_MADE,
    BEST_GUESSES,
    PRIOR_GUESSES,
    assist,             \* the context block of line 103
    m,                  \* the record of the guess being evaluated
    res,                \* the guidance model's last reply
    emitted,            \* the list logged by line 143
    arrivals,           \* history: the window's records, earliest append first
    evaluated,          \* history: every record evaluated so far
    lastEvent,          \* history: the last call outcome, log entry or sleep
    logged,             \* history: the kinds of INFO entry logged in this
                        \* iteration, in order of first emission
    sent,               \* history: the message of this iteration's last chat call
    cmp                 \* the pair of records of the ordering check

vars == << pc, hashSeed, COST_LIMIT, TOTAL_COST, TEXT, VECTOR_ERROR,
           CURRENT_BEST_TEXT, CURRENT_BEST_ERROR, GUESSES_MADE, BEST_GUESSES,
           PRIOR_GUESSES, assist, m, res, emitted, arrivals, evaluated,
           lastEvent, logged, sent, cmp >>

NoRecord == <<<<>>, 0>>

NoMessage == [record |-> NoRecord, context |-> [best |-> <<>>, prior |-> <<>>]]

NoCmp == [d1 |-> 0, t1 |-> 0, d2 |-> 0, t2 |-> 0, sorted |-> <<>>]

\* Append a kind of log entry unless the iteration already logged it.
Logged(log, kind) == IF kind \in Range(log) THEN log ELSE Append(log, kind)

Init ==
    /\ pc = "loop"
    /\ hashSeed \in 0..MaxSeed
    /\ COST_LIMIT \in CostLimits
    /\ TOTAL_COST = 0
    /\ TEXT = InitialText
    /\ VECTOR_ERROR = Infinity
    /\ CURRENT_BEST_TEXT = InitialText
    /\ CURRENT_BEST_ERROR = Infinity
    /\ GUESSES_MADE = 0
    /\ BEST_GUESSES = <<>>
    /\ PRIOR_GUESSES = <<>>
    /\ assist = [best |-> <<>>, prior |-> <<>>]
    /\ m = NoRecord
    /\ res = NoReply
    /\ emitted = <<>>
    /\ arrivals = <<>>
    /\ evaluated = {}
    /\ lastEvent = "none"
    /\ logged = <<>>
    /\ sent = NoMessage
    /\ cmp = NoCmp

\* ------------------------------------------------------------ actions
\* Mutant of CheckBudgetPass: the budget test admits a cost equal to the
\* limit.
CheckBudgetPassInclusive ==
    /\ pc = "loop"
    /\ TOTAL_COST <= COST_LIMIT
    /\ GUESSES_MADE < MaxGuesses
    /\ GUESSES_MADE' = GUESSES_MADE + 1
    /\ pc' = "embed"
    /\ UNCHANGED << hashSeed, COST_LIMIT, TOTAL_COST, TEXT, VECTOR_ERROR,
                    CURRENT_BEST_TEXT, CURRENT_BEST_ERROR, BEST_GUESSES,
                    PRIOR_GUESSES, assist, m, res, emitted, arrivals,
                    evaluated >>
    /\ lastEvent' = "count"
    /\ logged' = <<>>
    /\ sent' = NoMessage
    /\ UNCHANGED cmp

\* Lines 82-83: the budget test passes and the iteration is counted.
CheckBudgetPass ==
    /\ pc = "loop"
    /\ TOTAL_COST < COST_LIMIT
    /\ GUESSES_MADE < MaxGuesses
    /\ GUESSES_MADE' = GUESSES_MADE + 1
    /\ pc' = "embed"
    /\ UNCHANGED << hashSeed, COST_LIMIT, TOTAL_COST, TEXT, VECTOR_ERROR,
                    CURRENT_BEST_TEXT, CURRENT_BEST_ERROR, BEST_GUESSES,
                    PRIOR_GUESSES, assist, m, res, emitted, arrivals,
                    evaluated >>
    /\ lastEvent' = "count"
    /\ logged' = <<>>
    /\ sent' = NoMessage
    /\ UNCHANGED cmp

\* Mutant of CheckBudgetStop: the iteration is counted before the budget
\* is tested.
CheckBudgetStopCounted ==
    /\ pc = "loop"
    /\ ~(TOTAL_COST < COST_LIMIT)
    /\ GUESSES_MADE' = GUESSES_MADE + 1
    /\ pc' = "emit"
    /\ UNCHANGED << hashSeed, COST_LIMIT, TOTAL_COST, TEXT, VECTOR_ERROR,
                    CURRENT_BEST_TEXT, CURRENT_BEST_ERROR, BEST_GUESSES,
                    PRIOR_GUESSES, assist, m, res, emitted, arrivals,
                    evaluated >>
    /\ UNCHANGED << lastEvent, logged, sent, cmp >>

\* Line 82: the budget test fails and control leaves the loop.
CheckBudgetStop ==
    /\ pc = "loop"
    /\ ~(TOTAL_COST < COST_LIMIT)
    /\ pc' = "emit"
    /\ UNCHANGED << hashSeed, COST_LIMIT, TOTAL_COST, TEXT, VECTOR_ERROR,
                    CURRENT_BEST_TEXT, CURRENT_BEST_ERROR, GUESSES_MADE,
                    BEST_GUESSES, PRIOR_GUESSES, assist, m, res, emitted,
                    arrivals, evaluated >>
    /\ UNCHANGED << lastEvent, logged, sent, cmp >>

\* Lines 86, 88: embed_documents raises.
EmbedRaise ==
    /\ pc = "embed"
    /\ pc' = "embed_err"
    /\ UNCHANGED << hashSeed, COST_LIMIT, TOTAL_COST, TEXT, VECTOR_ERROR,
                    CURRENT_BEST_TEXT, CURRENT_BEST_ERROR, GUESSES_MADE,
                    BEST_GUESSES, PRIOR_GUESSES, assist, m, res, emitted,
                    arrivals, evaluated >>
    /\ lastEvent' = "embed_raise"
    /\ UNCHANGED << logged, sent, cmp >>

\* Mutant of EmbedBackoff: the handler leaves the loop instead of going
\* back to the call.
EmbedGiveUp ==
    /\ pc = "embed_err"
    /\ pc' = "emit"
    /\ UNCHANGED << hashSeed, COST_LIMIT, TOTAL_COST, TEXT, VECTOR_ERROR,
                    CURRENT_BEST_TEXT, CURRENT_BEST_ERROR, GUESSES_MADE,
                    BEST_GUESSES, PRIOR_GUESSES, assist, m, res, emitted,
                    arrivals, evaluated >>
    /\ lastEvent' = "backoff7"
    /\ UNCHANGED << logged, sent, cmp >>

\* Mutant of EmbedBackoff: the handler goes on to the update without a
\* result of the call.
EmbedBackoffSkip ==
    /\ pc = "embed_err"
    /\ pc' = "update"
    /\ UNCHANGED << hashSeed, COST_LIMIT, TOTAL_COST, TEXT, VECTOR_ERROR,
                    CURRENT_BEST_TEXT, CURRENT_BEST_ERROR, GUESSES_MADE,
                    BEST_GUESSES, PRIOR_GUESSES, assist, m, res, emitted,
                    arrivals, evaluated >>
    /\ lastEvent' = "backoff7"
    /\ UNCHANGED << logged, sent, cmp >>

\* Mutant of EmbedBackoff: every attempt of the call is counted as a guess.
EmbedBackoffCounted ==
    /\ pc = "embed_err"
    /\ GUESSES_MADE < MaxGuesses
    /\ GUESSES_MADE' = GUESSES_MADE + 1
    /\ pc' = "embed"
    /\ UNCHANGED << hashSeed, COST_LIMIT, TOTAL_COST, TEXT, VECTOR_ERROR,
                    CURRENT_BEST_TEXT, CURRENT_BEST_ERROR,
                    BEST_GUESSES, PRIOR_GUESSES, assist, m, res, emitted,
                    arrivals, evaluated >>
    /\ lastEvent' = "backoff7"
    /\ UNCHANGED << logged, sent, cmp >>

\* Lines 89-90: the error is logged, sleep(7), and the call is made again.
EmbedBackoff ==
    /\ pc = "embed_err"
    /\ pc' = "embed"
    /\ UNCHANGED << hashSeed, COST_LIMIT, TOTAL_COST, TEXT, VECTOR_ERROR,
                    CURRENT_BEST_TEXT, CURRENT_BEST_ERROR, GUESSES_MADE,
                    BEST_GUESSES, PRIOR_GUESSES, assist, m, res, emitted,
                    arrivals, evaluated >>
    /\ lastEvent' = "backoff7"
    /\ UNCHANGED << logged, sent, cmp >>

\* Mutant of Evaluate: the guess is not logged (line 92 left out).
EvaluateUnlogged(j) ==
    /\ pc = "embed"
    /\ LET d == ErrorOf(TEXT) - j
           best == ListOfSet(BEST_GUESSES, hashSeed)
           prior == ListOfSet(PRIOR_GUESSES, hashSeed)
       IN  /\ VECTOR_ERROR' = d
           /\ BEST_GUESSES' = best
           /\ PRIOR_GUESSES' = prior
           /\ assist' = [best |-> best, prior |-> prior]
           /\ m' = GuessRecord(d, TEXT)
           /\ evaluated' = evaluated \cup {GuessRecord(d, TEXT)}
    /\ pc' = "update"
    /\ UNCHANGED << hashSeed, COST_LIMIT, TOTAL_COST, TEXT, CURRENT_BEST_TEXT,
                    CURRENT_BEST_ERROR, GUESSES_MADE, res, emitted, arrivals >>
    /\ lastEvent' = "log_guess"
    /\ UNCHANGED << logged, sent, cmp >>

\* Lines 86-87, 92-105: the call returns, the distance is computed, both
\* lists go through list(set(...)), the context block and the record are
\* built.
Evaluate(j) ==
    /\ pc = "embed"
    /\ LET d == ErrorOf(TEXT) - j
           best == ListOfSet(BEST_GUESSES, hashSeed)
           prior == ListOfSet(PRIOR_GUESSES, hashSeed)
       IN  /\ VECTOR_ERROR' = d
           /\ BEST_GUESSES' = best
           /\ PRIOR_GUESSES' = prior
           /\ assist' = [best |-> best, prior |-> prior]
           /\ m' = GuessRecord(d, TEXT)
           /\ evaluated' = evaluated \cup {GuessRecord(d, TEXT)}
    /\ pc' = "update"
    /\ UNCHANGED << hashSeed, COST_LIMIT, TOTAL_COST, TEXT, CURRENT_BEST_TEXT,
                    CURRENT_BEST_ERROR, GUESSES_MADE, res, emitted, arrivals >>
    /\ lastEvent' = "log_guess"
    /\ logged' = Logged(logged, "guess")
    /\ UNCHANGED << sent, cmp >>

\* Mutant of InsertBest: the list is sorted but not cut.
InsertBestUncut(best, r) == SortList(Append(best, r))

\* Lines 111-113: append, sort, keep the first three.
InsertBest(best, r) ==
    LET sorted == SortList(Append(best, r))
    IN  SubSeq(sorted, 1, IF Len(sorted) < BestCap THEN Len(sorted) ELSE BestCap)

\* Mutant of IsNewBest: the distance is compared with the initial best
\* (infinity) instead of the current one.
IsNewBestVsInitial(d, best) == d < Infinity

\* Line 107.
IsNewBest(d, best) == d < best

\* Lines 107-113.
UpdateBest ==
    /\ pc = "update"
    /\ IF IsNewBest(VECTOR_ERROR, CURRENT_BEST_ERROR)
       THEN /\ CURRENT_BEST_TEXT' = TEXT
            /\ CURRENT_BEST_ERROR' = VECTOR_ERROR
            /\ lastEvent' = "log_newbest"
            /\ logged' = Logged(logged, "newbest")
            /\ BEST_GUESSES' = InsertBest(BEST_GUESSES, m)
       ELSE UNCHANGED << CURRENT_BEST_TEXT, CURRENT_BEST_ERROR, BEST_GUESSES,
                         lastEvent, logged >>
    /\ pc' = "match"
    /\ UNCHANGED << hashSeed, COST_LIMIT, TOTAL_COST, TEXT, VECTOR_ERROR,
                    GUESSES_MADE, PRIOR_GUESSES, assist, m, res, emitted,
                    arrivals, evaluated >>
    /\ UNCHANGED << sent, cmp >>

\* Mutant of IsMatch: a strict comparison.
IsMatchStrict(d) == d < MATCH_ERROR

\* Line 115.
IsMatch(d) == d <= MATCH_ERROR

\* Lines 115-116: break on a match, else go on to the guidance call.
CheckMatch ==
    /\ pc = "match"
    /\ pc' = IF IsMatch(VECTOR_ERROR) THEN "emit" ELSE "chat"
    /\ UNCHANGED << hashSeed, COST_LIMIT, TOTAL_COST, TEXT, VECTOR_ERROR,
                    CURRENT_BEST_TEXT, CURRENT_BEST_ERROR, GUESSES_MADE,
                    BEST_GUESSES, PRIOR_GUESSES, assist, m, res, emitted,
                    arrivals, evaluated >>
    /\ UNCHANGED << lastEvent, logged, sent, cmp >>

\* Lines 120-121, 129: ollama.chat raises.
ChatRaise ==
    /\ pc = "chat"
    /\ pc' = "chat_err"
    /\ UNCHANGED << hashSeed, COST_LIMIT, TOTAL_COST, TEXT, VECTOR_ERROR,
                    CURRENT_BEST_TEXT, CURRENT_BEST_ERROR, GUESSES_MADE,
                    BEST_GUESSES, PRIOR_GUESSES, assist, m, res, emitted,
                    arrivals, evaluated >>
    /\ lastEvent' = "chat_raise"
    /\ logged' = Logged(logged, "chat")
    /\ sent' = [record |-> m, context |-> assist]
    /\ UNCHANGED cmp

\* Lines 130-131: the error is logged, sleep(5), and the call is made again.
ChatBackoff ==
    /\ pc = "chat_err"
    /\ pc' = "chat"
    /\ UNCHANGED << hashSeed, COST_LIMIT, TOTAL_COST, TEXT, VECTOR_ERROR,
                    CURRENT_BEST_TEXT, CURRENT_BEST_ERROR, GUESSES_MADE,
                    BEST_GUESSES, PRIOR_GUESSES, assist, m, res, emitted,
                    arrivals, evaluated >>
    /\ lastEvent' = "backoff5"
    /\ UNCHANGED << logged, sent, cmp >>

\* Lines 121-128: the call returns a reply whose message is falsy; the
\* test of line 127 fails and the call is made again at once.
ChatEmpty ==
    /\ pc = "chat"
    /\ res' = NoReply
    /\ pc' = "chat"
    /\ UNCHANGED << hashSeed, COST_LIMIT, TOTAL_COST, TEXT, VECTOR_ERROR,
                    CURRENT_BEST_TEXT, CURRENT_BEST_ERROR, GUESSES_MADE,
                    BEST_GUESSES, PRIOR_GUESSES, assist, m, emitted,
                    arrivals, evaluated >>
    /\ lastEvent' = "chat_rejected"
    /\ logged' = Logged(logged, "chat")
    /\ sent' = [record |-> m, context |-> assist]
    /\ UNCHANGED cmp

\* Lines 121-128: the call returns a reply with a message.
ChatOk(t) ==
    /\ pc = "chat"
    /\ res' = [message |-> TRUE, content |-> t]
    /\ pc' = "accept"
    /\ UNCHANGED << hashSeed, COST_LIMIT, TOTAL_COST, TEXT, VECTOR_ERROR,
                    CURRENT_BEST_TEXT, CURRENT_BEST_ERROR, GUESSES_MADE,
                    BEST_GUESSES, PRIOR_GUESSES, assist, m, emitted,
                    arrivals, evaluated >>
    /\ lastEvent' = "chat_ok"
    /\ logged' = Logged(logged, "chat")
    /\ sent' = [record |-> m, context |-> assist]
    /\ UNCHANGED cmp

\* Mutant of AppendHistory: the iteration is charged the whole budget.
AppendHistoryCharged ==
    /\ pc = "accept"
    /\ TEXT' = res.content
    /\ PRIOR_GUESSES' = Append(PRIOR_GUESSES, m)
    /\ arrivals' = IF m \in Range(arrivals) THEN arrivals
                   ELSE Append(arrivals, m)
    /\ TOTAL_COST' = TOTAL_COST + 60
    /\ pc' = "cap"
    /\ UNCHANGED << hashSeed, COST_LIMIT, VECTOR_ERROR,
                    CURRENT_BEST_TEXT, CURRENT_BEST_ERROR, GUESSES_MADE,
                    BEST_GUESSES, assist, m, res, emitted, evaluated >>
    /\ lastEvent' = "log_reply"
    /\ logged' = Logged(logged, "reply")
    /\ UNCHANGED << sent, cmp >>

\* Lines 134-136: the reply becomes the guess, the evaluated record is
\* appended to the window, the pair is logged.
AppendHistory ==
    /\ pc = "accept"
    /\ TEXT' = res.content
    /\ PRIOR_GUESSES' = Append(PRIOR_GUESSES, m)
    /\ arrivals' = IF m \in Range(arrivals) THEN arrivals
                   ELSE Append(arrivals, m)
    /\ pc' = "cap"
    /\ UNCHANGED << hashSeed, COST_LIMIT, TOTAL_COST, VECTOR_ERROR,
                    CURRENT_BEST_TEXT, CURRENT_BEST_ERROR, GUESSES_MADE,
                    BEST_GUESSES, assist, m, res, emitted, evaluated >>
    /\ lastEvent' = "log_reply"
    /\ logged' = Logged(logged, "reply")
    /\ UNCHANGED << sent, cmp >>

\* Mutant of CapWindow: the cut comes one entry late.
CapWindowLate(w) == IF Len(w) > WindowCap + 1 THEN Tail(w) ELSE w

\* Lines 137, 141.
CapWindow(w) == IF Len(w) > WindowCap THEN Tail(w) ELSE w

\* Lines 137-141: the window is cut back, and control returns to line 82.
EnforceCap ==
    /\ pc = "cap"
    /\ PRIOR_GUESSES' = CapWindow(PRIOR_GUESSES)
    /\ arrivals' = SelectSeq(arrivals,
                             LAMBDA x : x \in Range(CapWindow(PRIOR_GUESSES)))
    /\ pc' = "loop"
    /\ UNCHANGED << hashSeed, COST_LIMIT, TOTAL_COST, TEXT, VECTOR_ERROR,
                    CURRENT_BEST_TEXT, CURRENT_BEST_ERROR, GUESSES_MADE,
                    BEST_GUESSES, assist, m, res, emitted, evaluated >>
    /\ UNCHANGED << lastEvent, logged, sent, cmp >>

\* Line 143: the best guesses are logged and demo() returns.
Emit ==
    /\ pc = "emit"
    /\ emitted' = BEST_GUESSES
    /\ pc' = "done"
    /\ UNCHANGED << hashSeed, COST_LIMIT, TOTAL_COST, TEXT, VECTOR_ERROR,
                    CURRENT_BEST_TEXT, CURRENT_BEST_ERROR, GUESSES_MADE,
                    BEST_GUESSES, PRIOR_GUESSES, assist, m, res, arrivals,
                    evaluated >>
    /\ lastEvent' = "log_final"
    /\ logged' = Logged(logged, "final")
    /\ UNCHANGED << sent, cmp >>

Next ==
    \/ CheckBudgetPass
    \/ CheckBudgetStop
    \/ EmbedRaise
    \/ EmbedBackoff
    \/ \E j \in Jitters : Evaluate(j)
    \/ UpdateBest
    \/ CheckMatch
    \/ ChatRaise
    \/ ChatBackoff
    \/ ChatEmpty
    \/ \E t \in Replies(TEXT) : ChatOk(t)
    \/ AppendHistory
    \/ EnforceCap
    \/ Emit

Spec == Init /\ [][Next]_vars

\* Lines 86-87: the call of embed_documents returns and the break leaves
\* the retry loop.
EmbedReturns == pc = "embed" /\ pc' = "update"

\* The loop under a service that answers in the end: sleep(7) returns
\* (line 90), and of the calls of line 86, made again after every failure,
\* one returns.
FairSpec ==
    /\ Spec
    /\ WF_vars(EmbedBackoff)
    /\ SF_pc(EmbedReturns)

\* ---------------------------------------------- the ordering of records
\* Lines 105, 111-112 on their own: two records are formatted, put in a
\* list and sorted.  The distances include the recorded 0.3751, two that
\* agree to four decimals, and 9.5 and 10.0.
OrderErrors == {37507, 98091, 98094, 950000, 1000000}

OrderTexts == {1, 2}

InitOrder ==
    /\ pc = "order"
    /\ hashSeed = 0
    /\ COST_LIMIT = 60
    /\ TOTAL_COST = 0
    /\ TEXT = InitialText
    /\ VECTOR_ERROR = Infinity
    /\ CURRENT_BEST_TEXT = InitialText
    /\ CURRENT_BEST_ERROR = Infinity
    /\ GUESSES_MADE = 0
    /\ BEST_GUESSES = <<>>
    /\ PRIOR_GUESSES = <<>>
    /\ assist = [best |-> <<>>, prior |-> <<>>]
    /\ m = NoRecord
    /\ res = NoReply
    /\ emitted = <<>>
    /\ arrivals = <<>>
    /\ evaluated = {}
    /\ lastEvent = "none"
    /\ logged = <<>>
    /\ sent = NoMessage
    /\ \E d1 \in OrderErrors, d2 \in OrderErrors :
       \E t1 \in OrderTexts, t2 \in OrderTexts :
           cmp = [d1 |-> d1, t1 |-> t1, d2 |-> d2, t2 |-> t2,
                  sorted |-> <<>>]

\* Lines 105, 111, 112.
SortPair ==
    /\ pc = "order"
    /\ cmp.sorted = <<>>
    /\ cmp' = [cmp EXCEPT !.sorted =
                   SortList(<< GuessRecord(cmp.d1, cmp.t1),
                               GuessRecord(cmp.d2, cmp.t2) >>)]
    /\ UNCHANGED << pc, hashSeed, COST_LIMIT, TOTAL_COST, TEXT, VECTOR_ERROR,
                    CURRENT_BEST_TEXT, CURRENT_BEST_ERROR, GUESSES_MADE,
                    BEST_GUESSES, PRIOR_GUESSES, assist, m, res, emitted,
                    arrivals, evaluated, lastEvent, logged, sent >>

NextOrder == SortPair

SpecOrder == InitOrder /\ [][NextOrder]_vars

\* ------------------------------------------------------------- claims
IsAscending(s) ==
    \A i \in 1..Len(s) : \A j \in i..Len(s) :
        RecordError(s[i]) <= RecordError(s[j])

Min(a, b) == IF a < b THEN a ELSE b

Occurrences(s, r) == Cardinality({i \in 1..Len(s) : s[i] = r})

\* C1: eviction from the window is first in, first out: whenever the
\* window of distinct records is cut back because it exceeds 8 entries,
\* the record removed is the one appended earliest among those in the
\* window (so after nine distinct guesses the window holds guesses 2 to 9).
C1_EvictionIsFifo ==
    [][ ( /\ pc = "cap"
          /\ Len(PRIOR_GUESSES) > WindowCap
          /\ Cardinality(Range(PRIOR_GUESSES)) = Len(PRIOR_GUESSES) )
          => /\ PRIOR_GUESSES[1] = arrivals[1]
             /\ Range(PRIOR_GUESSES') = Range(arrivals) \ {arrivals[1]} ]_vars

\* C2: after every iteration the best guesses are the (up to) 3
\* lowest-distance records among all the guesses evaluated so far.
C2_BestAreThreeLowestEvaluated ==
    pc \notin {"embed", "embed_err", "update"} =>
        LET B == Range(BEST_GUESSES)
        IN  /\ B \subseteq evaluated
            /\ Cardinality(B) = Min(BestCap, Cardinality(evaluated))
            /\ \A b \in B : \A e \in evaluated \ B :
                   RecordError(b) <= RecordError(e)

\* C3: the best guesses are in ascending order of distance in every state
\* of the loop, in the context block handed to the guidance model and in
\* the list logged at the end.
C3_BestSortedWheneverRead ==
    /\ IsAscending(BEST_GUESSES)
    /\ IsAscending(assist.best)
    /\ IsAscending(emitted)

\* C4: the best guesses never number more than 3, whatever the guesses:
\* repeated guesses and long runs of new bests included.
C4_BestAtMostThree ==
    /\ Len(BEST_GUESSES) <= 3
    /\ Len(assist.best) <= 3
    /\ Len(emitted) <= 3

\* C4 witness: a new best has just been inserted into a list that already
\* held three records.
C4_Witness ==
    /\ pc = "match"
    /\ Len(assist.best) = 3
    /\ m \notin Range(assist.best)
    /\ m \in Range(BEST_GUESSES)
    /\ Len(BEST_GUESSES) = 3

\* C5 as stated: the window holds at most 8 records in every state,
\* the state between the append and the cut included.
C5_WindowAtMostEightAlways == Len(PRIOR_GUESSES) <= 8

\* C5 as amended: the window holds at most 8 records in every state but
\* the one between the append of line 135 and the cut of lines 137-141,
\* where it holds at most 9; the window the guidance model is shown holds
\* at most 8.
C5_WindowAtMostEightOutsideCut ==
    /\ pc # "cap" => Len(PRIOR_GUESSES) <= 8
    /\ pc = "cap" => Len(PRIOR_GUESSES) <= 9
    /\ Len(assist.prior) <= 8

\* C5 witness: a window that was full when the iteration began has been
\* appended to and cut back to 8.
C5_Witness ==
    /\ pc = "loop"
    /\ Len(assist.prior) = 8
    /\ Len(PRIOR_GUESSES) = 8
    /\ PRIOR_GUESSES[8] = m

\* C6: inserting a record that is already present, into the best guesses
\* or into the window, leaves the members as they were: no growth and no
\* other record displaced.
C6_DuplicateKeepsMembers ==
    [][ /\ (pc = "update" /\ m \in Range(BEST_GUESSES))
          => Range(BEST_GUESSES') = Range(BEST_GUESSES)
        /\ (pc = "cap" /\ Occurrences(PRIOR_GUESSES, m) > 1)
          => Range(PRIOR_GUESSES') = Range(PRIOR_GUESSES) ]_vars

\* C7: the loop stops on a match exactly when the distance just evaluated
\* is at most the threshold; it then leaves in that iteration with no
\* guidance call and no append to the window, and otherwise it goes on to
\* the guidance call.
C7_StopOnMatchExactly ==
    [][ /\ (pc = "match" /\ VECTOR_ERROR <= MATCH_ERROR)
          => (pc' = "emit" /\ PRIOR_GUESSES' = PRIOR_GUESSES /\ res' = res)
        /\ (pc = "match" /\ VECTOR_ERROR > MATCH_ERROR) => pc' = "chat"
        /\ (pc \in {"emit", "done"})
          => /\ pc' \in {"emit", "done"}
             /\ PRIOR_GUESSES' = PRIOR_GUESSES
             /\ res' = res
             /\ TEXT' = TEXT
        /\ (pc' \in {"chat", "chat_err", "accept", "cap"})
          => VECTOR_ERROR' > MATCH_ERROR ]_vars

\* C7 witness: the run has ended on a distance equal to the threshold,
\* after at least one guidance step.
C7_Witness ==
    /\ pc = "done"
    /\ VECTOR_ERROR = MATCH_ERROR
    /\ GUESSES_MADE > 1
    /\ m \notin Range(PRIOR_GUESSES)

\* C8: the current best distance never increases, and it changes only
\* when the distance just evaluated is strictly smaller, to that distance.
C8_BestErrorNonIncreasing ==
    [][ /\ CURRENT_BEST_ERROR' <= CURRENT_BEST_ERROR
        /\ CURRENT_BEST_ERROR' # CURRENT_BEST_ERROR
             => /\ pc = "update"
                /\ VECTOR_ERROR < CURRENT_BEST_ERROR
                /\ CURRENT_BEST_ERROR' = VECTOR_ERROR ]_vars

\* C8 witness: a guess that is no improvement has been evaluated and the
\* best distance, set by an earlier guess, was kept.
C8_Witness ==
    /\ pc = "match"
    /\ CURRENT_BEST_ERROR < Infinity
    /\ VECTOR_ERROR > CURRENT_BEST_ERROR
    /\ CURRENT_BEST_TEXT # TEXT

\* C9: the loop is left only on a match (the distance just evaluated is
\* at most the threshold) or on an exhausted budget (cost at least the
\* limit, tested at the top); a failed embedding or guidance call leads
\* back to the call, never out of the loop.
C9_ExitOnlyOnStopCondition ==
    [][ /\ (pc' \in {"emit", "done"})
          => (VECTOR_ERROR' <= MATCH_ERROR \/ TOTAL_COST' >= COST_LIMIT')
        /\ (pc # "emit" /\ pc' = "emit") => pc \in {"loop", "match"}
        /\ pc = "embed_err" => pc' = "embed"
        /\ pc = "chat_err" => pc' = "chat"
        /\ pc \in {"embed", "chat"} => pc' \notin {"emit", "done"} ]_vars

\* C9 witness: the run has ended on a match, within budget, after
\* several iterations.
C9_Witness ==
    /\ pc = "done"
    /\ VECTOR_ERROR <= MATCH_ERROR
    /\ TOTAL_COST < COST_LIMIT
    /\ GUESSES_MADE > 2

\* C10: the budget is tested only at the top of an iteration: if the test
\* fails nothing of the iteration is done (no count, no embedding call),
\* and once it has passed, the iteration is left only by the match test or
\* by reaching the top again.
C10_BudgetTestedAtTopOnly ==
    [][ /\ (pc = "loop" /\ TOTAL_COST >= COST_LIMIT)
          => /\ pc' = "emit"
             /\ GUESSES_MADE' = GUESSES_MADE
             /\ VECTOR_ERROR' = VECTOR_ERROR
             /\ evaluated' = evaluated
        /\ (pc = "loop" /\ TOTAL_COST < COST_LIMIT)
          => (pc' = "embed" /\ GUESSES_MADE' = GUESSES_MADE + 1)
        /\ GUESSES_MADE' # GUESSES_MADE
          => (pc = "loop" /\ TOTAL_COST < COST_LIMIT)
        /\ (pc \notin {"loop", "match", "emit"}) => pc' # "emit" ]_vars

\* C10 witness: the test failed at the top of the first iteration and the
\* run ended with nothing counted and nothing evaluated.
C10_Witness ==
    /\ pc = "done"
    /\ TOTAL_COST >= COST_LIMIT
    /\ GUESSES_MADE = 0
    /\ evaluated = {}

\* C11: with a cost limit of 0 the loop body is never entered: the counter
\* stays 0, no guess is evaluated, no call of either service is made,
\* and the final emission is the empty best list.
C11_ZeroBudgetZeroIterations ==
    COST_LIMIT = 0 =>
        /\ pc \in {"loop", "emit", "done"}
        /\ GUESSES_MADE = 0
        /\ evaluated = {}
        /\ sent = NoMessage
        /\ res = NoReply
        /\ lastEvent \in {"none", "log_final"}
        /\ BEST_GUESSES = <<>>
        /\ emitted = <<>>
        /\ (pc = "done" => logged = <<"final">>)

C11_Witness == COST_LIMIT = 0 /\ pc = "done" /\ logged = <<"final">>

\* C16: the message sent to the guidance model lists the best guesses as
\* they stand after the update of the same iteration.
C16_ContextHasUpdatedBest ==
    sent # NoMessage => Range(sent.context.best) = Range(BEST_GUESSES)

C12_NewBestIsTopEntry ==
    [][pc = "update" /\ VECTOR_ERROR < CURRENT_BEST_ERROR
          => /\ CURRENT_BEST_TEXT' = TEXT
             /\ CURRENT_BEST_ERROR' = VECTOR_ERROR
             /\ BEST_GUESSES' # <<>>
             /\ BEST_GUESSES'[1] = m]_vars

\* C19: when the loop is left on a match, the current best is the guess
\* just evaluated and its record is in the emitted best list.
C19_MatchedGuessIsEmitted ==
    pc = "done" /\ VECTOR_ERROR <= MATCH_ERROR
        => /\ CURRENT_BEST_TEXT = TEXT
           /\ CURRENT_BEST_ERROR = VECTOR_ERROR
           /\ m \in Range(emitted)
\* C17: sorting two records as strings puts the record of the numerically
\* lower distance first, for every pair of distances.
C17_StringOrderIsNumericOrder ==
    cmp.sorted # <<>> /\ cmp.d1 < cmp.d2
        => cmp.sorted[1] = GuessRecord(cmp.d1, cmp.t1)
LogOrdersStated ==
    { <<"guess", "chat", "newbest", "reply">>, <<"guess", "chat", "reply">> }

LogOrders ==
    { <<"guess", "newbest", "chat", "reply">>, <<"guess", "chat", "reply">> }

IsPrefix(a, b) == Len(a) <= Len(b) /\ SubSeq(b, 1, Len(a)) = a

\* The INFO entries of the iteration, the final emission left out.
IterationLog ==
    IF "final" \in Range(logged) THEN SubSeq(logged, 1, Len(logged) - 1)
    ELSE logged

\* C13 as stated: in an iteration that reaches the guidance step the log
\* shows the guess, then the guidance prompt, then the new-best
\* announcement if any, then the reply; the best list is logged last.
C13_LogOrderPromptBeforeNewBest ==
    /\ ("chat" \in Range(logged)
            => \E o \in LogOrdersStated : IsPrefix(IterationLog, o))
    /\ ("final" \in Range(logged)
            => logged[Len(logged)] = "final" /\ pc = "done")
    /\ (pc = "done" => "final" \in Range(logged) /\ emitted = BEST_GUESSES)

\* C13 amended: in every iteration the log shows the guess, then the
\* new-best announcement if any, then the guidance prompt, then the
\* reply; the best list is logged last, and nothing is logged after it.
C13_LogOrderNewBestBeforePrompt ==
    /\ \E o \in LogOrders : IsPrefix(IterationLog, o)
    /\ ("final" \in Range(logged)
            => logged[Len(logged)] = "final" /\ pc = "done")
    /\ (pc = "done" => "final" \in Range(logged) /\ emitted = BEST_GUESSES)

C13_Witness ==
    /\ logged = <<"guess", "newbest", "chat", "reply">>
    /\ lastEvent = "log_reply"
    /\ GUESSES_MADE > 1
\* C14: a failed embedding call is followed by the logged error, the wait
\* of 7 and the same call again, and never by anything else; no number of
\* failures leaves the evaluation, and once the service answers the
\* evaluation completes with the distance of that answer.
C14_EmbedRetriedUntilSuccess ==
    /\ [][/\ (pc = "embed" => pc' \in {"embed_err", "update"})
          /\ (pc = "embed_err"
                => /\ lastEvent = "embed_raise"
                   /\ lastEvent' = "backoff7"
                   /\ pc' = "embed")
          /\ (pc' = "update"
                => /\ pc = "embed"
                   /\ m' = GuessRecord(VECTOR_ERROR', TEXT)
                   /\ ErrorOf(TEXT) - VECTOR_ERROR' \in Jitters)]_vars
    /\ (pc = "embed" ~> pc = "update")

C14_Witness ==
    pc = "embed" /\ lastEvent = "backoff7" /\ GUESSES_MADE > 1

\* C15: within an iteration, a guidance call that is not the first one is
\* made right after the logged error and the wait of 5 that followed the
\* previous attempt.
C15_RepeatedChatAfterBackoff ==
    pc = "chat" /\ sent # NoMessage => lastEvent = "backoff5"

\* C20: a failed attempt of either call changes nothing of the run state:
\* across the retries the guess, the current best, the best list, the
\* window and the counter keep their values, the counter moves by one at
\* the top of an iteration only, and every guidance call of an iteration
\* sends the same message.
C20_RetriesKeepRunState ==
    [][/\ ((pc \in {"embed", "embed_err"} /\ pc' \in {"embed", "embed_err"})
            \/ (pc \in {"chat", "chat_err"} /\ pc' \in {"chat", "chat_err"})
              => UNCHANGED << TEXT, CURRENT_BEST_TEXT, CURRENT_BEST_ERROR,
                              VECTOR_ERROR, BEST_GUESSES, PRIOR_GUESSES,
                              GUESSES_MADE, m, assist >>)
       /\ (GUESSES_MADE' # GUESSES_MADE
              => pc = "loop" /\ GUESSES_MADE' = GUESSES_MADE + 1)
       /\ (pc \in {"chat", "chat_err"} /\ sent # NoMessage
              => sent' = sent)]_vars

C20_Witness ==
    /\ pc = "chat"
    /\ lastEvent = "backoff5"
    /\ sent = [record |-> m, context |-> assist]
    /\ GUESSES_MADE > 1
====
